---------------------------- MODULE Spec2Model ----------------------------
(***************************************************************************)
(* Model of the OpenHealth backend: the shelters and events repositories   *)
(* (crud/*.py), their request schemas (schemas/*.py), table definitions    *)
(* (models/*.py) and the route handlers that call them (routes/*.py).      *)
(*                                                                         *)
(* A column value is NULL (<<>>) or Some(v) (<<v>>).  Text is a sequence   *)
(* of one-character strings.  Timestamps are integers.  Coordinates are    *)
(* whole degrees.                                                          *)
(***************************************************************************)
EXTENDS Integers, Sequences, FiniteSets, TLC

VARIABLES events, shelters, now, dbnow, resp, sessions

vars == <<events, shelters, now, dbnow, resp, sessions>>

-----------------------------------------------------------------------------
(* Bounds of the model *)

MaxId == 2

MaxRows == 2

MaxTime == 2

MaxPage == 2

Ids == 1..MaxId

-----------------------------------------------------------------------------
(* Column values *)

NULL == <<>>

Some(v) == <<v>>

Val(x) == x[1]

IsNull(x) == x = NULL

\* Python truthiness of an optional value as used by `if v`, `if name_filter`:
\* None is falsy; so is the empty string.
Truthy(x) == x # NULL /\ Val(x) # <<>>

-----------------------------------------------------------------------------
(* Table definitions *)

EventColumns ==
    {"event_id", "event_name", "description", "event_type", "address",
     "contact_phone", "location", "opening_hours", "capacity", "services",
     "event_date", "end_date", "created_by", "created_at"}

EventNotNull == {"event_id", "event_name", "event_type", "location", "event_date"}

ShelterColumns ==
    {"shelter_id", "shelter_name", "description", "address", "contact_phone",
     "location", "opening_hours", "capacity", "available_beds", "services",
     "details", "created_by", "created_at"}

ShelterNotNull == {"shelter_id", "shelter_name", "location"}

RowAcceptedAlways(row, notnull) == TRUE

\* The store's check at commit (flush): a row violating NOT NULL is refused.
RowAccepted(row, notnull) == \A c \in notnull : row[c] # NULL

-----------------------------------------------------------------------------
(* Request schemas *)

EventTypeMembers ==
    ("MEDICAL" :> "medical") @@ ("FOOD" :> "food") @@ ("HYGIENE" :> "hygiene")
        @@ ("COMMUNITY_SUPPORT" :> "community_support") @@ ("OTHER" :> "other")

EventTypeValues == {EventTypeMembers[m] : m \in DOMAIN EventTypeMembers}

\* pydantic's coercion of the request string to the enumeration member.
ParseEventType(s) == CHOOSE m \in DOMAIN EventTypeMembers : EventTypeMembers[m] = s

LonMax == 180

LatMax == 90

ValidLocationPoint(p) ==
    /\ p.longitude >= -LonMax /\ p.longitude <= LonMax
    /\ p.latitude >= -LatMax /\ p.latitude <= LatMax

NameMaxLength == 500

ValidName(s) == Len(s) >= 1 /\ Len(s) <= NameMaxLength

ValidAnyNumber(x) == TRUE

\* Field(None, ge=0)
ValidNonNegative(x) == x = NULL \/ Val(x) >= 0

\* EventBase.validate_end_date: runs with the already validated event_date.
ValidateEndDate(v, event_date) ==
    ~ (v # NULL /\ event_date # NULL /\ Val(v) < Val(event_date))

EventCreateFields == EventColumns \ {"created_at"}

ValidEventCreate(p) ==
    /\ p.event_id # NULL
    /\ p.event_name # NULL /\ ValidName(Val(p.event_name))
    /\ p.event_type # NULL /\ Val(p.event_type) \in EventTypeValues
    /\ p.location # NULL /\ ValidLocationPoint(Val(p.location))
    /\ ValidNonNegative(p.capacity)
    /\ p.event_date # NULL
    /\ ValidateEndDate(p.end_date, p.event_date)

EventUpdateFields ==
    {"event_name", "description", "event_type", "address", "contact_phone",
     "location", "opening_hours", "capacity", "services", "event_date", "end_date"}

\* EventUpdate: every field Optional; constraints apply to non-null values only.
ValidEventUpdate(body) ==
    /\ ("event_name" \in DOMAIN body /\ body["event_name"] # NULL)
            => ValidName(Val(body["event_name"]))
    /\ ("event_type" \in DOMAIN body /\ body["event_type"] # NULL)
            => Val(body["event_type"]) \in EventTypeValues
    /\ ("location" \in DOMAIN body /\ body["location"] # NULL)
            => ValidLocationPoint(Val(body["location"]))
    /\ ("capacity" \in DOMAIN body) => ValidNonNegative(body["capacity"])

ShelterCreateFields == ShelterColumns \ {"created_at"}

ValidShelterCreate(p) ==
    /\ p.shelter_id # NULL
    /\ p.shelter_name # NULL /\ ValidName(Val(p.shelter_name))
    /\ p.location # NULL /\ ValidLocationPoint(Val(p.location))
    /\ ValidNonNegative(p.capacity)
    /\ ValidNonNegative(p.available_beds)

ShelterUpdateFields ==
    {"shelter_name", "description", "address", "contact_phone", "location",
     "opening_hours", "capacity", "available_beds", "services", "details"}

ValidShelterUpdate(body) ==
    /\ ("shelter_name" \in DOMAIN body /\ body["shelter_name"] # NULL)
            => ValidName(Val(body["shelter_name"]))
    /\ ("location" \in DOMAIN body /\ body["location"] # NULL)
            => ValidLocationPoint(Val(body["location"]))
    /\ ("capacity" \in DOMAIN body) => ValidNonNegative(body["capacity"])
    /\ ("available_beds" \in DOMAIN body) => ValidNonNegative(body["available_beds"])

ModelDumpWithExtras(body, fields) == body

\* model_dump(exclude_unset=True): the fields of the schema the body set,
\* explicit nulls included; keys the schema does not declare are dropped.
ModelDump(body, fields) == [f \in (DOMAIN body) \cap fields |-> body[f]]

-----------------------------------------------------------------------------
(* Geo point codec *)

Srid == 4326

\* location_to_wkt: "SRID=4326;POINT(lon lat)", longitude first.
location_to_wkt(p) == <<Srid, p.longitude, p.latitude>>

\* parse_location_from_db: ST_X / ST_Y of the stored geometry.
parse_location(g) ==
    IF g = NULL THEN NULL
    ELSE Some([longitude |-> Val(g)[2], latitude |-> Val(g)[3]])

-----------------------------------------------------------------------------
(* Responses *)

\* The response of the latest request (every action writes it), with the
\* request's own arguments where a property needs them: the fields a patch set
\* and those it set to null; the arguments and the clock reading of a query.
NoResp ==
    [op |-> "none", id |-> 0, outcome |-> "none", fields |-> {}, nulls |-> {},
     entities |-> <<>>, total |-> 0, args |-> <<>>]

Reply(op, id, outcome) ==
    [op |-> op, id |-> id, outcome |-> outcome, fields |-> {}, nulls |-> {},
     entities |-> <<>>, total |-> 0, args |-> <<>>]

PatchReply(op, id, outcome, body) ==
    [op |-> op, id |-> id, outcome |-> outcome, fields |-> DOMAIN body,
     nulls |-> {f \in DOMAIN body : body[f] = NULL},
     entities |-> <<>>, total |-> 0, args |-> <<>>]

PageReply(op, entities, total, args) ==
    [op |-> op, id |-> 0, outcome |-> "OK", fields |-> {}, nulls |-> {},
     entities |-> entities, total |-> total, args |-> args]

-----------------------------------------------------------------------------
(* Table operations *)

Insert(table, id, row) ==
    [i \in (DOMAIN table) \cup {id} |-> IF i = id THEN row ELSE table[i]]

RemoveNothing(table, id) == table

Remove(table, id) == [i \in (DOMAIN table) \ {id} |-> table[i]]

Rows == Cardinality(DOMAIN events) + Cardinality(DOMAIN shelters)

-----------------------------------------------------------------------------
(* Events repository: create, update, delete *)

NewEventRow(p) ==
    [c \in EventColumns |->
        CASE c = "location" -> Some(location_to_wkt(Val(p.location)))
          [] c = "event_type" ->
                Some(EventTypeMembers[ParseEventType(Val(p.event_type))])
          [] c = "created_at" -> Some(dbnow)
          [] OTHER -> p[c]]

\* update_event lines 116-128: the dumped fields, location and event_type
\* converted when truthy, assigned one by one.
EventUpdateData(body) ==
    LET d == ModelDump(body, EventUpdateFields) IN
    [f \in DOMAIN d |->
        CASE f = "location" /\ d[f] # NULL -> Some(location_to_wkt(Val(d[f])))
          [] f = "event_type" /\ d[f] # NULL ->
                Some(EventTypeMembers[ParseEventType(Val(d[f]))])
          [] OTHER -> d[f]]

PatchedReplacing(row, data) ==
    [c \in DOMAIN row |->
        IF c \in DOMAIN data THEN data[c]
        ELSE IF c \in EventUpdateFields \cup ShelterUpdateFields THEN NULL
        ELSE row[c]]

\* The setattr loop of update_event / update_shelter.
Patched(row, data) ==
    [c \in DOMAIN row |-> IF c \in DOMAIN data THEN data[c] ELSE row[c]]

EventExistsUnchecked(id) == FALSE

\* get_event / the existence check of create_event.
EventExists(id) == id \in DOMAIN events

CreateEvent(p) ==
    LET id == Val(p.event_id) IN
    /\ IF ~ ValidEventCreate(p)
         THEN /\ resp' = Reply("create_event", id, "ValidationError")
              /\ UNCHANGED events
         ELSE IF EventExists(id)
         THEN /\ resp' = Reply("create_event", id, "Conflict")
              /\ UNCHANGED events
         ELSE /\ Rows < MaxRows \/ id \in DOMAIN events   \* table size bound
              /\ IF RowAccepted(NewEventRow(p), EventNotNull)
                   THEN /\ events' = Insert(events, id, NewEventRow(p))
                        /\ resp' = Reply("create_event", id, "Created")
                   ELSE /\ resp' = Reply("create_event", id, "StoreError")
                        /\ UNCHANGED events
    /\ UNCHANGED <<shelters, now, dbnow, sessions>>

UpdateEvent(id, body) ==
    LET data == EventUpdateData(body) IN
    /\ IF ~ ValidEventUpdate(body)
         THEN /\ resp' = Reply("update_event", id, "ValidationError")
              /\ UNCHANGED events
         ELSE IF ~ EventExists(id)
         THEN /\ resp' = Reply("update_event", id, "NotFound")
              /\ UNCHANGED events
         ELSE IF RowAccepted(Patched(events[id], data), EventNotNull)
         THEN /\ events' = [events EXCEPT ![id] = Patched(events[id], data)]
              /\ resp' = PatchReply("update_event", id, "OK", body)
         ELSE /\ resp' = PatchReply("update_event", id, "StoreError", body)
              /\ UNCHANGED events
    /\ UNCHANGED <<shelters, now, dbnow, sessions>>

\* get_event of the route: 404 when the id is not stored.
GetEvent(id) ==
    /\ resp' = Reply("get_event", id, IF EventExists(id) THEN "Found" ELSE "NotFound")
    /\ UNCHANGED <<events, shelters, now, dbnow, sessions>>

DeleteEventBlindly(id) ==
    /\ events' = Remove(events, id)
    /\ resp' = Reply("delete_event", id, "Deleted")
    /\ UNCHANGED <<shelters, now, dbnow, sessions>>

DeleteEvent(id) ==
    /\ IF EventExists(id)
         THEN /\ events' = Remove(events, id)
              /\ resp' = Reply("delete_event", id, "Deleted")
         ELSE /\ resp' = Reply("delete_event", id, "NotFound")
              /\ UNCHANGED events
    /\ UNCHANGED <<shelters, now, dbnow, sessions>>

-----------------------------------------------------------------------------
(* Shelters repository: create, update, delete *)

NewShelterRow(p) ==
    [c \in ShelterColumns |->
        CASE c = "location" -> Some(location_to_wkt(Val(p.location)))
          [] c = "created_at" -> Some(dbnow)
          [] OTHER -> p[c]]

ShelterUpdateData(body) ==
    LET d == ModelDump(body, ShelterUpdateFields) IN
    [f \in DOMAIN d |->
        CASE f = "location" /\ d[f] # NULL -> Some(location_to_wkt(Val(d[f])))
          [] OTHER -> d[f]]

\* get_shelter / the existence check of create_shelter.
ShelterExists(id) == id \in DOMAIN shelters

CreateShelter(p) ==
    LET id == Val(p.shelter_id) IN
    /\ IF ~ ValidShelterCreate(p)
         THEN /\ resp' = Reply("create_shelter", id, "ValidationError")
              /\ UNCHANGED shelters
         ELSE IF ShelterExists(id)
         THEN /\ resp' = Reply("create_shelter", id, "Conflict")
              /\ UNCHANGED shelters
         ELSE /\ Rows < MaxRows \/ id \in DOMAIN shelters   \* table size bound
              /\ IF RowAccepted(NewShelterRow(p), ShelterNotNull)
                   THEN /\ shelters' = Insert(shelters, id, NewShelterRow(p))
                        /\ resp' = Reply("create_shelter", id, "Created")
                   ELSE /\ resp' = Reply("create_shelter", id, "StoreError")
                        /\ UNCHANGED shelters
    /\ UNCHANGED <<events, now, dbnow, sessions>>

UpdateShelter(id, body) ==
    LET data == ShelterUpdateData(body) IN
    /\ IF ~ ValidShelterUpdate(body)
         THEN /\ resp' = Reply("update_shelter", id, "ValidationError")
              /\ UNCHANGED shelters
         ELSE IF ~ ShelterExists(id)
         THEN /\ resp' = Reply("update_shelter", id, "NotFound")
              /\ UNCHANGED shelters
         ELSE IF RowAccepted(Patched(shelters[id], data), ShelterNotNull)
         THEN /\ shelters' = [shelters EXCEPT ![id] = Patched(shelters[id], data)]
              /\ resp' = PatchReply("update_shelter", id, "OK", body)
         ELSE /\ resp' = PatchReply("update_shelter", id, "StoreError", body)
              /\ UNCHANGED shelters
    /\ UNCHANGED <<events, now, dbnow, sessions>>

\* get_shelter of the route: 404 when the id is not stored.
GetShelter(id) ==
    /\ resp' = Reply("get_shelter", id, IF ShelterExists(id) THEN "Found" ELSE "NotFound")
    /\ UNCHANGED <<events, shelters, now, dbnow, sessions>>

DeleteShelter(id) ==
    /\ IF ShelterExists(id)
         THEN /\ shelters' = Remove(shelters, id)
              /\ resp' = Reply("delete_shelter", id, "Deleted")
         ELSE /\ resp' = Reply("delete_shelter", id, "NotFound")
              /\ UNCHANGED shelters
    /\ UNCHANGED <<events, now, dbnow, sessions>>

-----------------------------------------------------------------------------
(* Query layer: SQL predicates, ordering, pagination *)

\* SQL's three-valued logic: a comparison with NULL is unknown ("U"), and
\* WHERE keeps the rows whose predicate is true ("T").
\* Column > value
Gt3(x, y) == IF x = NULL \/ y = NULL THEN "U" ELSE IF Val(x) > Val(y) THEN "T" ELSE "F"

\* Column >= value
Ge3(x, y) == IF x = NULL \/ y = NULL THEN "U" ELSE IF Val(x) >= Val(y) THEN "T" ELSE "F"

Le3(x, y) == IF x = NULL \/ y = NULL THEN "U" ELSE IF Val(x) <= Val(y) THEN "T" ELSE "F"

Eq3(x, y) == IF x = NULL \/ y = NULL THEN "U" ELSE IF Val(x) = Val(y) THEN "T" ELSE "F"

IsNull3(x) == IF x = NULL THEN "T" ELSE "F"

And3(a, b) ==
    IF a = "F" \/ b = "F" THEN "F" ELSE IF a = "T" /\ b = "T" THEN "T" ELSE "U"

Or3(a, b) ==
    IF a = "T" \/ b = "T" THEN "T" ELSE IF a = "F" /\ b = "F" THEN "F" ELSE "U"

\* query.filter(...): the ids of the rows the predicate is true of.
\* verdict[id] is the value of the predicate on row id.
Where(table, verdict) == {id \in DOMAIN table : verdict[id] = "T"}

Perms(S) ==
    {s \in [1..Cardinality(S) -> S] : \A i, j \in 1..Cardinality(S) : i # j => s[i] # s[j]}

\* order_by(key): every arrangement of the ids that is sorted by the key; the
\* store fixes no order among rows with equal keys.
\* key[id] is the ordering key of row id.
OrderedBy(S, key, desc) ==
    {s \in Perms(S) :
        \A i, j \in 1..Len(s) :
            i < j => IF desc THEN key[s[i]] >= key[s[j]] ELSE key[s[i]] <= key[s[j]]}

Min(a, b) == IF a <= b THEN a ELSE b

\* .offset(skip).limit(limit)
OffsetLimit(s, skip, limit) == SubSeq(s, skip + 1, Min(skip + limit, Len(s)))

SkipWholePages(page, page_size) == page * page_size

\* skip = (page - 1) * page_size
Skip(page, page_size) == (page - 1) * page_size

PageSizeMax == 100

EventDateOf(id) == Val(events[id]["event_date"])

UpcomingFilterStrict(row, t) ==
    Or3(Gt3(row["end_date"], Some(t)),
        And3(IsNull3(row["end_date"]), Gt3(row["event_date"], Some(t))))

UpcomingFilterNullOngoing(row, t) ==
    Or3(Ge3(row["end_date"], Some(t)), IsNull3(row["end_date"]))

\* get_upcoming_events lines 176-181
UpcomingFilter(row, t) ==
    Or3(Ge3(row["end_date"], Some(t)),
        And3(IsNull3(row["end_date"]), Ge3(row["event_date"], Some(t))))

ActiveFilterStrict(row, t) ==
    And3(IF Val(row["event_date"]) < t THEN "T" ELSE "F",
         Or3(Ge3(row["end_date"], Some(t)), IsNull3(row["end_date"])))

ActiveFilterOpenEndedOut(row, t) ==
    And3(Le3(row["event_date"], Some(t)), Ge3(row["end_date"], Some(t)))

\* get_active_events lines 196-202
ActiveFilter(row, t) ==
    And3(Le3(row["event_date"], Some(t)),
         Or3(Ge3(row["end_date"], Some(t)), IsNull3(row["end_date"])))

PageMin == 1

PageSizeMin == 1

\* Query(ge=1) on page and Query(ge=1, le=100) on page_size
ValidPage(page, page_size) ==
    page >= PageMin /\ page_size >= PageSizeMin /\ page_size <= PageSizeMax

DaysAheadMax == 365

\* A 4xx reply of a listing endpoint; args records the request.
Refused(op, outcome, args) == [Reply(op, 0, outcome) EXCEPT !.args = args]

ListUpcoming(page, page_size, days_ahead) ==
    LET Pred(row) == UpcomingFilter(row, now)
        matching == Where(events, [id \in DOMAIN events |-> Pred(events[id])])
        args == [page |-> page, page_size |-> page_size, now |-> now,
                 days_ahead |-> days_ahead]
    IN  /\ IF ~ (ValidPage(page, page_size) /\ days_ahead >= 1 /\ days_ahead <= DaysAheadMax)
             THEN resp' = Refused("list_upcoming", "ValidationError", args)
             ELSE \E s \in OrderedBy(matching, [id \in matching |-> EventDateOf(id)], FALSE) :
                    resp' = PageReply("list_upcoming",
                                OffsetLimit(s, Skip(page, page_size), page_size),
                                Cardinality(matching), args)
        /\ UNCHANGED <<events, shelters, now, dbnow, sessions>>

ListActive(page, page_size) ==
    LET Pred(row) == ActiveFilter(row, now)
        matching == Where(events, [id \in DOMAIN events |-> Pred(events[id])])
        args == [page |-> page, page_size |-> page_size, now |-> now]
    IN  /\ IF ~ ValidPage(page, page_size)
             THEN resp' = Refused("list_active", "ValidationError", args)
             ELSE \E s \in OrderedBy(matching, [id \in matching |-> EventDateOf(id)], TRUE) :
                    resp' = PageReply("list_active",
                                OffsetLimit(s, Skip(page, page_size), page_size),
                                Cardinality(matching), args)
        /\ UNCHANGED <<events, shelters, now, dbnow, sessions>>

LowerCase == ("A" :> "a") @@ ("B" :> "b")

Lower(ch) == IF ch \in DOMAIN LowerCase THEN LowerCase[ch] ELSE ch

\* SQL LIKE on lower-cased text: % matches any run of characters, _ any one.
RECURSIVE Like(_, _)
Like(text, pat) ==
    IF pat = <<>> THEN text = <<>>
    ELSE IF Head(pat) = "%"
        THEN Like(text, Tail(pat)) \/ (text # <<>> /\ Like(Tail(text), pat))
    ELSE IF Head(pat) = "_"
        THEN text # <<>> /\ Like(Tail(text), Tail(pat))
    ELSE text # <<>> /\ Lower(Head(text)) = Lower(Head(pat))
                   /\ Like(Tail(text), Tail(pat))

\* column.ilike(f"%{filter}%")
ILikeContains3(col, filter) ==
    IF col = NULL THEN "U"
    ELSE IF Like(Val(col), <<"%">> \o filter \o <<"%">>) THEN "T" ELSE "F"

\* "if name_filter:" and "if city_filter:" skip an absent or empty filter.
TextFilter3(col, filter) ==
    IF Truthy(filter) THEN ILikeContains3(col, Val(filter)) ELSE "T"

\* "if event_type_filter:" then Event.event_type == event_type_filter
TypeFilter3(col, filter) ==
    IF filter # NULL /\ Val(filter) # "" THEN Eq3(col, filter) ELSE "T"

\* get_events lines 88-98
EventsFilter(row, name, event_type, city) ==
    And3(TextFilter3(row["event_name"], name),
         And3(TypeFilter3(row["event_type"], event_type),
              TextFilter3(row["address"], city)))

\* get_shelters lines 89-95
SheltersFilter(row, name, city) ==
    And3(TextFilter3(row["shelter_name"], name), TextFilter3(row["address"], city))

\* get_events_by_date_range lines 231-234
DateRangeFilter(row, start_date, end_date) ==
    And3(Ge3(row["event_date"], Some(start_date)), Le3(row["event_date"], Some(end_date)))

\* get_shelters_with_availability lines 168-170
AvailabilityFilter(row, min_beds) == Ge3(row["available_beds"], Some(min_beds))

ShelterIdOf(id) == Val(shelters[id]["shelter_id"])

AvailableBedsOf(id) == Val(shelters[id]["available_beds"])

ListEvents(page, page_size, name, event_type, city) ==
    LET Pred(row) == EventsFilter(row, name, event_type, city)
        matching == Where(events, [id \in DOMAIN events |-> Pred(events[id])])
        args == [page |-> page, page_size |-> page_size, name |-> name,
                 event_type |-> event_type, city |-> city]
    IN  /\ IF ~ ValidPage(page, page_size)
             THEN resp' = Refused("list_events", "ValidationError", args)
             ELSE \E s \in OrderedBy(matching, [id \in matching |-> EventDateOf(id)], TRUE) :
                    resp' = PageReply("list_events",
                                OffsetLimit(s, Skip(page, page_size), page_size),
                                Cardinality(matching), args)
        /\ UNCHANGED <<events, shelters, now, dbnow, sessions>>

ListEventsByType(event_type, page, page_size) ==
    LET Pred(row) == Eq3(row["event_type"], Some(event_type))
        matching == Where(events, [id \in DOMAIN events |-> Pred(events[id])])
        args == [page |-> page, page_size |-> page_size, event_type |-> event_type]
    IN  /\ IF ~ (ValidPage(page, page_size) /\ event_type \in EventTypeValues)
             THEN resp' = Refused("list_by_type", "ValidationError", args)
             ELSE \E s \in OrderedBy(matching, [id \in matching |-> EventDateOf(id)], TRUE) :
                    resp' = PageReply("list_by_type",
                                OffsetLimit(s, Skip(page, page_size), page_size),
                                Cardinality(matching), args)
        /\ UNCHANGED <<events, shelters, now, dbnow, sessions>>

ListEventsByDateRange(start_date, end_date, page, page_size) ==
    LET Pred(row) == DateRangeFilter(row, start_date, end_date)
        matching == Where(events, [id \in DOMAIN events |-> Pred(events[id])])
        args == [page |-> page, page_size |-> page_size,
                 start_date |-> start_date, end_date |-> end_date]
    IN  /\ IF ~ ValidPage(page, page_size)
             THEN resp' = Refused("list_by_date_range", "ValidationError", args)
           ELSE IF end_date < start_date
             THEN resp' = Refused("list_by_date_range", "BadRequest", args)
             ELSE \E s \in OrderedBy(matching, [id \in matching |-> EventDateOf(id)], FALSE) :
                    resp' = PageReply("list_by_date_range",
                                OffsetLimit(s, Skip(page, page_size), page_size),
                                Cardinality(matching), args)
        /\ UNCHANGED <<events, shelters, now, dbnow, sessions>>

ListShelters(page, page_size, name, city) ==
    LET Pred(row) == SheltersFilter(row, name, city)
        matching == Where(shelters, [id \in DOMAIN shelters |-> Pred(shelters[id])])
        args == [page |-> page, page_size |-> page_size, name |-> name, city |-> city]
    IN  /\ IF ~ ValidPage(page, page_size)
             THEN resp' = Refused("list_shelters", "ValidationError", args)
             ELSE \E s \in OrderedBy(matching, [id \in matching |-> ShelterIdOf(id)], TRUE) :
                    resp' = PageReply("list_shelters",
                                OffsetLimit(s, Skip(page, page_size), page_size),
                                Cardinality(matching), args)
        /\ UNCHANGED <<events, shelters, now, dbnow, sessions>>

ListAvailableShelters(min_beds, page, page_size) ==
    LET Pred(row) == AvailabilityFilter(row, min_beds)
        matching == Where(shelters, [id \in DOMAIN shelters |-> Pred(shelters[id])])
        args == [page |-> page, page_size |-> page_size, min_beds |-> min_beds]
    IN  /\ IF ~ (ValidPage(page, page_size) /\ min_beds >= 1)
             THEN resp' = Refused("list_available", "ValidationError", args)
             ELSE \E s \in OrderedBy(matching, [id \in matching |-> AvailableBedsOf(id)], TRUE) :
                    resp' = PageReply("list_available",
                                OffsetLimit(s, Skip(page, page_size), page_size),
                                Cardinality(matching), args)
        /\ UNCHANGED <<events, shelters, now, dbnow, sessions>>

\* ST_Distance on two geometry values of one SRID: the planar distance in the
\* units of that SRID (degrees for 4326), kept squared here.
DistSq(g, h) == (g[2] - h[2]) * (g[2] - h[2]) + (g[3] - h[3]) * (g[3] - h[3])

\* ST_GeomFromText("SRID=4326;POINT(lon lat)")
GeomFromText(lon, lat) == <<Srid, lon, lat>>

\* ST_DWithin(column, point, r): ST_Distance <= r, in the same planar units.
\* Valid coordinates are never 2*LonMax + 2*LatMax apart, which keeps r * r
\* within TLC's integers.
DWithin3(col, h, r) ==
    IF col = NULL THEN "U"
    ELSE IF r > 2 * LonMax + 2 * LatMax THEN "T"
    ELSE IF DistSq(Val(col), h) <= r * r THEN "T" ELSE "F"

NearestUnordered(S, dist) == Perms(S)

\* order_by(ST_Distance(location, point)): nearest first; dist[id] is the
\* distance of row id.
NearestFirst(S, dist) == OrderedBy(S, dist, FALSE)

LimitOffByOne(s, limit) == OffsetLimit(s, 0, limit + 1)

\* .limit(limit)
Limit(s, limit) == OffsetLimit(s, 0, limit)

RadiusMin == 100

RadiusMax == 50000

NearbyLimitMax == 50

\* Query(..., ge=, le=) of find_nearby_events / find_nearby_shelters
ValidNearbyQuery(lon, lat, radius, limit) ==
    /\ ValidLocationPoint([longitude |-> lon, latitude |-> lat])
    /\ radius >= RadiusMin /\ radius <= RadiusMax
    /\ limit >= 1 /\ limit <= NearbyLimitMax

NearbyArgs(lon, lat, radius, limit) ==
    [longitude |-> lon, latitude |-> lat, radius |-> radius, limit |-> limit]

NearbyEvents(lon, lat, radius, limit) ==
    LET q == GeomFromText(lon, lat)
        Pred(row) == DWithin3(row["location"], q, radius)
        matching == Where(events, [id \in DOMAIN events |-> Pred(events[id])])
        dist == [id \in matching |-> DistSq(Val(events[id]["location"]), q)]
    IN  /\ IF ~ ValidNearbyQuery(lon, lat, radius, limit)
             THEN resp' = Reply("nearby_events", 0, "ValidationError")
             ELSE \E s \in NearestFirst(matching, dist) :
                    resp' = PageReply("nearby_events", Limit(s, limit), 0,
                                      NearbyArgs(lon, lat, radius, limit))
        /\ UNCHANGED <<events, shelters, now, dbnow, sessions>>

NearbyShelters(lon, lat, radius, limit) ==
    LET q == GeomFromText(lon, lat)
        Pred(row) == DWithin3(row["location"], q, radius)
        matching == Where(shelters, [id \in DOMAIN shelters |-> Pred(shelters[id])])
        dist == [id \in matching |-> DistSq(Val(shelters[id]["location"]), q)]
    IN  /\ IF ~ ValidNearbyQuery(lon, lat, radius, limit)
             THEN resp' = Reply("nearby_shelters", 0, "ValidationError")
             ELSE \E s \in NearestFirst(matching, dist) :
                    resp' = PageReply("nearby_shelters", Limit(s, limit), 0,
                                      NearbyArgs(lon, lat, radius, limit))
        /\ UNCHANGED <<events, shelters, now, dbnow, sessions>>

\* datetime.utcnow() read by the next query: the application clock advances.
Tick ==
    /\ now <= MaxTime
    /\ now' = now + 1
    /\ resp' = Reply("tick", 0, "none")
    /\ UNCHANGED <<events, shelters, dbnow, sessions>>

-----------------------------------------------------------------------------
(* Concurrent requests: every request runs in its own session (get_db), and *)
(* the statements of one request are separate steps between which the      *)
(* statements of other requests run.  The engine is created without an     *)
(* isolation level, so every statement reads what is committed when it     *)
(* runs.  A session's pending changes are private to it until its commit.  *)

Clients == {1, 2}

\* A session: idle, pending (between two statements of its request) or done.
\* body is the request's body, loaded the row the request read, total the
\* result of a count query, args the arguments of a listing.
Idle ==
    [pc |-> "idle", op |-> "none", id |-> 0, body |-> <<>>, loaded |-> <<>>,
     total |-> 0, args |-> <<>>, outcome |-> "none"]

NoSessions == [c \in Clients |-> Idle]

Pending(op, id, body, loaded) ==
    [Idle EXCEPT !.pc = "pending", !.op = op, !.id = id, !.body = body,
                 !.loaded = loaded]

Finished(op, id, body, outcome) ==
    [Idle EXCEPT !.pc = "done", !.op = op, !.id = id, !.body = body,
                 !.outcome = outcome]

\* The request of client c ends with the given outcome.
Finish(c, outcome) ==
    sessions' = [sessions EXCEPT
                    ![c] = Finished(sessions[c].op, sessions[c].id, sessions[c].body, outcome)]

PrimaryKeyUnchecked(table, id) == TRUE

\* Column(Integer, primary_key=True): an INSERT of a stored id is refused.
PrimaryKeyFree(table, id) == id \notin DOMAIN table

\* create_event up to the existence check (lines 45-51).
BeginCreateEvent(c, p) ==
    LET id == Val(p.event_id) IN
    /\ sessions[c].pc # "pending"
    /\ IF ~ ValidEventCreate(p)
         THEN /\ resp' = Reply("create_event", id, "ValidationError")
              /\ sessions' = [sessions EXCEPT
                                ![c] = Finished("create_event", id, p, "ValidationError")]
         ELSE IF EventExists(id)
         THEN /\ resp' = Reply("create_event", id, "Conflict")
              /\ sessions' = [sessions EXCEPT
                                ![c] = Finished("create_event", id, p, "Conflict")]
         ELSE /\ sessions' = [sessions EXCEPT
                                ![c] = Pending("create_event", id, p, <<>>)]
              /\ UNCHANGED resp
    /\ UNCHANGED <<events, shelters, now, dbnow>>

\* create_event from db.add to db.commit (lines 53-71): the INSERT and its
\* commit; the route turns the store's refusal into a 400.
CommitCreateEvent(c) ==
    LET s == sessions[c]
        row == NewEventRow(s.body)
    IN  /\ s.pc = "pending" /\ s.op = "create_event"
        /\ Rows < MaxRows \/ s.id \in DOMAIN events   \* table size bound
        /\ IF PrimaryKeyFree(events, s.id) /\ RowAccepted(row, EventNotNull)
             THEN /\ events' = Insert(events, s.id, row)
                  /\ resp' = Reply("create_event", s.id, "Created")
                  /\ Finish(c, "Created")
             ELSE /\ resp' = Reply("create_event", s.id, "StoreError")
                  /\ Finish(c, "StoreError")
                  /\ UNCHANGED events
        /\ UNCHANGED <<shelters, now, dbnow>>

\* create_shelter up to the existence check (lines 48-51).
BeginCreateShelter(c, p) ==
    LET id == Val(p.shelter_id) IN
    /\ sessions[c].pc # "pending"
    /\ IF ~ ValidShelterCreate(p)
         THEN /\ resp' = Reply("create_shelter", id, "ValidationError")
              /\ sessions' = [sessions EXCEPT
                                ![c] = Finished("create_shelter", id, p, "ValidationError")]
         ELSE IF ShelterExists(id)
         THEN /\ resp' = Reply("create_shelter", id, "Conflict")
              /\ sessions' = [sessions EXCEPT
                                ![c] = Finished("create_shelter", id, p, "Conflict")]
         ELSE /\ sessions' = [sessions EXCEPT
                                ![c] = Pending("create_shelter", id, p, <<>>)]
              /\ UNCHANGED resp
    /\ UNCHANGED <<events, shelters, now, dbnow>>

\* create_shelter from db.add to db.commit (lines 53-73).
CommitCreateShelter(c) ==
    LET s == sessions[c]
        row == NewShelterRow(s.body)
    IN  /\ s.pc = "pending" /\ s.op = "create_shelter"
        /\ Rows < MaxRows \/ s.id \in DOMAIN shelters   \* table size bound
        /\ IF PrimaryKeyFree(shelters, s.id) /\ RowAccepted(row, ShelterNotNull)
             THEN /\ shelters' = Insert(shelters, s.id, row)
                  /\ resp' = Reply("create_shelter", s.id, "Created")
                  /\ Finish(c, "Created")
             ELSE /\ resp' = Reply("create_shelter", s.id, "StoreError")
                  /\ Finish(c, "StoreError")
                  /\ UNCHANGED shelters
        /\ UNCHANGED <<events, now, dbnow>>

\* The columns the UPDATE of a session sets: the attributes whose assigned
\* value differs from the value the session loaded.  An assigned location is
\* text (or None) and the loaded one a geometry element, which never compare
\* equal.
ChangedColumns(data, loaded) ==
    {f \in DOMAIN data : f = "location" \/ data[f] # loaded[f]}

\* update_event up to the setattr loop (lines 111-128): the row is read and
\* the changes are pending in the session.
BeginUpdateEvent(c, id, body) ==
    /\ sessions[c].pc # "pending"
    /\ IF ~ ValidEventUpdate(body)
         THEN /\ resp' = Reply("update_event", id, "ValidationError")
              /\ sessions' = [sessions EXCEPT
                                ![c] = Finished("update_event", id, body, "ValidationError")]
         ELSE IF ~ EventExists(id)
         THEN /\ resp' = Reply("update_event", id, "NotFound")
              /\ sessions' = [sessions EXCEPT
                                ![c] = Finished("update_event", id, body, "NotFound")]
         ELSE /\ sessions' = [sessions EXCEPT
                                ![c] = Pending("update_event", id, body, events[id])]
              /\ UNCHANGED resp
    /\ UNCHANGED <<events, shelters, now, dbnow>>

\* update_event lines 130-131: db.commit() sends one UPDATE of the changed
\* columns and commits it; db.refresh() reads the row back.  A row deleted
\* in the meantime fails the request, as does a NOT NULL violation.
CommitUpdateEvent(c) ==
    LET s == sessions[c]
        data == EventUpdateData(s.body)
        changed == ChangedColumns(data, s.loaded)
        stmt == [f \in changed |-> data[f]]
    IN  /\ s.pc = "pending" /\ s.op = "update_event"
        /\ IF s.id \in DOMAIN events
                /\ RowAccepted(Patched(events[s.id], stmt), EventNotNull)
             THEN /\ events' = [events EXCEPT ![s.id] = Patched(events[s.id], stmt)]
                  /\ resp' = PatchReply("update_event", s.id, "OK", s.body)
                  /\ Finish(c, "OK")
             ELSE /\ resp' = PatchReply("update_event", s.id, "StoreError", s.body)
                  /\ Finish(c, "StoreError")
                  /\ UNCHANGED events
        /\ UNCHANGED <<shelters, now, dbnow>>

\* delete_event up to db.delete (lines 136-141).
BeginDeleteEvent(c, id) ==
    /\ sessions[c].pc # "pending"
    /\ IF EventExists(id)
         THEN /\ sessions' = [sessions EXCEPT
                                ![c] = Pending("delete_event", id, <<>>, <<>>)]
              /\ UNCHANGED resp
         ELSE /\ resp' = Reply("delete_event", id, "NotFound")
              /\ sessions' = [sessions EXCEPT
                                ![c] = Finished("delete_event", id, <<>>, "NotFound")]
    /\ UNCHANGED <<events, shelters, now, dbnow>>

\* delete_event line 142: db.commit() sends the DELETE and commits it; a
\* DELETE that matches no row is only warned about.
CommitDeleteEvent(c) ==
    LET s == sessions[c] IN
    /\ s.pc = "pending" /\ s.op = "delete_event"
    /\ events' = Remove(events, s.id)
    /\ resp' = Reply("delete_event", s.id, "Deleted")
    /\ Finish(c, "Deleted")
    /\ UNCHANGED <<shelters, now, dbnow>>

\* The rows a listing's filters select, at the time of the statement.
ListMatching(op, a) ==
    CASE op = "list_events" ->
            Where(events, [id \in DOMAIN events |->
                            EventsFilter(events[id], a.name, a.event_type, a.city)])
      [] op = "list_shelters" ->
            Where(shelters, [id \in DOMAIN shelters |->
                              SheltersFilter(shelters[id], a.name, a.city)])
      [] op = "list_available" ->
            Where(shelters, [id \in DOMAIN shelters |->
                              AvailabilityFilter(shelters[id], a.min_beds)])

\* The orders in which the listing's ORDER BY may return the rows S.
ListOrderings(op, S) ==
    CASE op = "list_events" -> OrderedBy(S, [id \in S |-> EventDateOf(id)], TRUE)
      [] op = "list_shelters" -> OrderedBy(S, [id \in S |-> ShelterIdOf(id)], TRUE)
      [] op = "list_available" -> OrderedBy(S, [id \in S |-> AvailableBedsOf(id)], TRUE)

ValidListArgs(op, a) ==
    ValidPage(a.page, a.page_size) /\ (op = "list_available" => a.min_beds >= 1)

\* get_events line 100, get_shelters line 97, get_shelters_with_availability
\* line 172: total = query.count(), the first statement of the listing.
CountList(c, op, a) ==
    /\ sessions[c].pc # "pending"
    /\ IF ~ ValidListArgs(op, a)
         THEN /\ resp' = Refused(op, "ValidationError", a)
              /\ sessions' = [sessions EXCEPT
                                ![c] = Finished(op, 0, <<>>, "ValidationError")]
         ELSE /\ sessions' = [sessions EXCEPT
                                ![c] = [Idle EXCEPT !.pc = "pending", !.op = op, !.args = a,
                                          !.total = Cardinality(ListMatching(op, a))]]
              /\ UNCHANGED resp
    /\ UNCHANGED <<events, shelters, now, dbnow>>

\* get_events line 101, get_shelters line 98, get_shelters_with_availability
\* line 173: the page query, a second statement, and the route's response.
PageList(c) ==
    LET s == sessions[c]
        matching == ListMatching(s.op, s.args)
    IN  /\ s.pc = "pending"
        /\ s.op \in {"list_events", "list_shelters", "list_available"}
        /\ \E q \in ListOrderings(s.op, matching) :
                resp' = PageReply(s.op,
                            OffsetLimit(q, Skip(s.args.page, s.args.page_size),
                                        s.args.page_size),
                            s.total, s.args)
        /\ Finish(c, "OK")
        /\ UNCHANGED <<events, shelters, now, dbnow>>

-----------------------------------------------------------------------------
(* Request bodies drawn by the specifications *)

TextA == <<"a">>

TextB == <<"B", "a">>

Point(lon, lat) == [longitude |-> lon, latitude |-> lat]

\* A create body for an event; optional fields the caller leaves out are null.
EventBody(id, name, type, loc, date, end) ==
    [f \in EventCreateFields |->
        CASE f = "event_id" -> Some(id)
          [] f = "event_name" -> name
          [] f = "event_type" -> type
          [] f = "location" -> loc
          [] f = "event_date" -> date
          [] f = "end_date" -> end
          [] OTHER -> NULL]

ShelterBody(id, name, loc, beds) ==
    [f \in ShelterCreateFields |->
        CASE f = "shelter_id" -> Some(id)
          [] f = "shelter_name" -> name
          [] f = "location" -> loc
          [] f = "available_beds" -> beds
          [] OTHER -> NULL]

\* The body with one field replaced.
With(body, field, value) ==
    [f \in DOMAIN body |-> IF f = field THEN value ELSE body[f]]

\* The body that sets exactly the fields S, field f to the k[f]-th of the
\* values listed for it.
Body(values, S, k) == [f \in S |-> values[f][k[f]]]

MaxAlternatives(values) ==
    CHOOSE n \in {Len(values[f]) : f \in DOMAIN values} :
        \A f \in DOMAIN values : Len(values[f]) <= n

Choices(values, S) ==
    {k \in [DOMAIN values -> 1..MaxAlternatives(values)] :
        \A f \in DOMAIN values : k[f] <= Len(values[f]) /\ (f \notin S => k[f] = 1)}

CrudNames == <<Some(TextA), Some(TextB)>>

CrudEventPatchValues ==
    [event_name |-> <<Some(TextB), NULL>>,
     location |-> <<Some(Point(1, 0))>>,
     description |-> <<Some(TextA)>>]

CrudShelterPatchValues ==
    [shelter_name |-> <<Some(TextB), NULL>>,
     location |-> <<Some(Point(1, 0))>>]

-----------------------------------------------------------------------------
(* Specification of the two repositories' create / update / delete *)

Init ==
    /\ events = <<>>
    /\ shelters = <<>>
    /\ now = 0
    /\ dbnow = 0
    /\ sessions = NoSessions
    /\ resp = NoResp

DoCreateEvent ==
    \E id \in Ids : \E n \in DOMAIN CrudNames :
        CreateEvent(EventBody(id, CrudNames[n], Some("food"), Some(Point(0, 0)),
                              Some(1), NULL))

DoUpdateEvent ==
    \E id \in Ids : \E S \in SUBSET DOMAIN CrudEventPatchValues :
        \E k \in Choices(CrudEventPatchValues, S) :
            UpdateEvent(id, Body(CrudEventPatchValues, S, k))

DoDeleteEvent == \E id \in Ids : DeleteEvent(id)

DoCreateShelter ==
    \E id \in Ids : \E n \in DOMAIN CrudNames :
        CreateShelter(ShelterBody(id, CrudNames[n], Some(Point(0, 0)), NULL))

DoUpdateShelter ==
    \E id \in Ids : \E S \in SUBSET DOMAIN CrudShelterPatchValues :
        \E k \in Choices(CrudShelterPatchValues, S) :
            UpdateShelter(id, Body(CrudShelterPatchValues, S, k))

DoDeleteShelter == \E id \in Ids : DeleteShelter(id)

Next ==
    \/ DoCreateEvent
    \/ DoUpdateEvent
    \/ DoDeleteEvent
    \/ DoCreateShelter
    \/ DoUpdateShelter
    \/ DoDeleteShelter

Spec == Init /\ [][Next]_vars

-----------------------------------------------------------------------------
(* Specification of the temporal filters: events with start and end dates, *)
(* the application clock, and the upcoming / active listings.  The         *)
(* database clock stands still: no filter reads created_at.                *)

Dates == 1..MaxTime

OptionalDates == <<NULL>> \o [t \in Dates |-> Some(t)]

TimePatchValues ==
    [event_date |-> [t \in Dates |-> Some(t)],
     end_date |-> OptionalDates]

TimeCreateEvent ==
    \E id \in Ids : \E d \in Dates : \E e \in DOMAIN OptionalDates :
        CreateEvent(EventBody(id, Some(TextA), Some("food"), Some(Point(0, 0)),
                              Some(d), OptionalDates[e]))

TimeUpdateEvent ==
    \E id \in Ids : \E S \in SUBSET DOMAIN TimePatchValues :
        \E k \in Choices(TimePatchValues, S) :
            UpdateEvent(id, Body(TimePatchValues, S, k))

TimeListUpcoming == ListUpcoming(1, PageSizeMax, 1)

TimeListActive == ListActive(1, PageSizeMax)

NextTime ==
    \/ TimeCreateEvent
    \/ TimeUpdateEvent
    \/ DoDeleteEvent
    \/ TimeListUpcoming
    \/ TimeListActive
    \/ Tick

SpecTime == Init /\ [][NextTime]_vars

-----------------------------------------------------------------------------
(* Specification of the listings over a given events table: the table is   *)
(* any table of at most MaxRows events with the start and end dates below  *)
(* (an end date before the start date included: SpecTime reaches such rows *)
(* through update), then the clock advances, events are deleted and the    *)
(* listings are read.                                                      *)

DatedEventRow(id, d, e) ==
    Patched(NewEventRow(EventBody(id, Some(TextA), Some("food"), Some(Point(0, 0)),
                                  Some(d), NULL)),
            EventUpdateData([end_date |-> OptionalDates[e]]))

DatedTables ==
    {[id \in DOMAIN c |-> DatedEventRow(id, c[id][1], c[id][2])] :
        c \in UNION {[S -> Dates \X DOMAIN OptionalDates] :
                        S \in {T \in SUBSET Ids : Cardinality(T) <= MaxRows}}}

InitClock ==
    /\ shelters = <<>>
    /\ now = 0
    /\ dbnow = 0
    /\ sessions = NoSessions
    /\ resp = NoResp
    /\ events \in DatedTables

NextClock ==
    \/ Tick
    \/ DoDeleteEvent
    \/ TimeListUpcoming
    \/ TimeListActive

SpecClock == InitClock /\ [][NextClock]_vars

-----------------------------------------------------------------------------
(* Specification of the proximity search: the two tables hold at most      *)
(* MaxRows rows between them, located at the sample points; rows are       *)
(* deleted and both nearby searches are read.                              *)

\* Two points one degree from the origin (a tie), the origin, and a point
\* more than RadiusMin degrees away; all within one degree of the equator.
GeoPoints == <<Point(0, 0), Point(1, 0), Point(0, 1), Point(150, 0)>>

GeoQueryPoints == <<Point(0, 0), Point(1, 1)>>

GeoRadii == {RadiusMin, RadiusMax}

GeoLimits == 1..MaxPage

GeoPlacements ==
    UNION {[S -> DOMAIN GeoPoints] : S \in {T \in SUBSET Ids : Cardinality(T) <= MaxRows}}

GeoEventTable(c) ==
    [id \in DOMAIN c |->
        NewEventRow(EventBody(id, Some(TextA), Some("food"), Some(GeoPoints[c[id]]),
                              Some(1), NULL))]

GeoShelterTable(c) ==
    [id \in DOMAIN c |->
        NewShelterRow(ShelterBody(id, Some(TextA), Some(GeoPoints[c[id]]), NULL))]

InitGeo ==
    /\ now = 0
    /\ dbnow = 0
    /\ sessions = NoSessions
    /\ resp = NoResp
    /\ \E c \in GeoPlacements : events = GeoEventTable(c)
    /\ \E c \in GeoPlacements : shelters = GeoShelterTable(c)
    /\ Rows <= MaxRows

GeoNearbyEvents ==
    \E q \in DOMAIN GeoQueryPoints : \E r \in GeoRadii : \E l \in GeoLimits :
        NearbyEvents(GeoQueryPoints[q].longitude, GeoQueryPoints[q].latitude, r, l)

GeoNearbyShelters ==
    \E q \in DOMAIN GeoQueryPoints : \E r \in GeoRadii : \E l \in GeoLimits :
        NearbyShelters(GeoQueryPoints[q].longitude, GeoQueryPoints[q].latitude, r, l)

NextGeo ==
    \/ GeoNearbyEvents
    \/ GeoNearbyShelters
    \/ DoDeleteEvent
    \/ DoDeleteShelter

SpecGeo == InitGeo /\ [][NextGeo]_vars

-----------------------------------------------------------------------------
(* Specification of the paginated listings: the two tables hold at most    *)
(* MaxRows rows between them, drawn from sample rows; the clock reads 1    *)
(* and every listing endpoint is read with sample filters and pages.       *)

\* <<name, event_type, address, event_date>>: two events start together.
PageEventSamples ==
    << <<TextA, "food", NULL, 1>>,
       <<TextB, "medical", Some(TextA), 1>>,
       <<TextB, "food", Some(TextB), 2>> >>

\* <<name, address, available_beds>>
PageShelterSamples ==
    << <<TextA, NULL, NULL>>,
       <<TextB, Some(TextA), Some(1)>>,
       <<TextA, Some(TextB), Some(2)>> >>

PageEventRow(id, r) ==
    Patched(NewEventRow(EventBody(id, Some(r[1]), Some(r[2]), Some(Point(0, 0)),
                                  Some(r[4]), NULL)),
            EventUpdateData([address |-> r[3]]))

PageShelterRow(id, r) ==
    Patched(NewShelterRow(ShelterBody(id, Some(r[1]), Some(Point(0, 0)), r[3])),
            ShelterUpdateData([address |-> r[2]]))

PagePlacements(samples) ==
    UNION {[S -> DOMAIN samples] : S \in {T \in SUBSET Ids : Cardinality(T) <= MaxRows}}

InitPage ==
    /\ now = 1
    /\ dbnow = 0
    /\ sessions = NoSessions
    /\ resp = NoResp
    /\ \E c \in PagePlacements(PageEventSamples) :
            events = [id \in DOMAIN c |-> PageEventRow(id, PageEventSamples[c[id]])]
    /\ \E c \in PagePlacements(PageShelterSamples) :
            shelters = [id \in DOMAIN c |-> PageShelterRow(id, PageShelterSamples[c[id]])]
    /\ Rows <= MaxRows

Pages == 1..MaxPage

PageSizes == {PageSizeMin, PageSizeMax}

\* <<name, event_type, city>>: none, empty strings, a name, a type with a city.
EventFilterSamples ==
    << <<NULL, NULL, NULL>>,
       <<Some(<<>>), Some(""), Some(<<>>)>>,
       <<Some(<<"b">>), NULL, NULL>>,
       <<NULL, Some("food"), Some(<<"B">>)>> >>

\* <<name, city>>
ShelterFilterSamples ==
    << <<NULL, NULL>>, <<Some(<<"b">>), Some(<<>>)>>, <<Some(<<"A">>), Some(<<"a">>)>> >>

DateRangeSamples == << <<1, 1>>, <<1, 2>>, <<2, 1>> >>

PageListEvents ==
    \E page \in Pages : \E page_size \in PageSizes : \E f \in DOMAIN EventFilterSamples :
        ListEvents(page, page_size, EventFilterSamples[f][1], EventFilterSamples[f][2],
                   EventFilterSamples[f][3])

PageListEventsByType ==
    \E page \in Pages : \E page_size \in PageSizes : \E t \in {"food", "medical"} :
        ListEventsByType(t, page, page_size)

PageListEventsByDateRange ==
    \E page \in Pages : \E page_size \in PageSizes : \E d \in DOMAIN DateRangeSamples :
        ListEventsByDateRange(DateRangeSamples[d][1], DateRangeSamples[d][2], page, page_size)

PageListUpcoming ==
    \E page \in Pages : \E page_size \in PageSizes : ListUpcoming(page, page_size, 1)

PageListActive ==
    \E page \in Pages : \E page_size \in PageSizes : ListActive(page, page_size)

PageListShelters ==
    \E page \in Pages : \E page_size \in PageSizes : \E f \in DOMAIN ShelterFilterSamples :
        ListShelters(page, page_size, ShelterFilterSamples[f][1], ShelterFilterSamples[f][2])

PageListAvailableShelters ==
    \E page \in Pages : \E page_size \in PageSizes : \E b \in {1, 2} :
        ListAvailableShelters(b, page, page_size)

NextPage ==
    \/ PageListEvents
    \/ PageListEventsByType
    \/ PageListEventsByDateRange
    \/ PageListUpcoming
    \/ PageListActive
    \/ PageListShelters
    \/ PageListAvailableShelters

SpecPage == InitPage /\ [][NextPage]_vars

-----------------------------------------------------------------------------
(* Specification of the list filters: the sample tables of the paginated   *)
(* listings, read whole (page 1 of the largest size) through the two list  *)
(* endpoints with filter texts that include LIKE's pattern characters.     *)

\* <<name, event_type, city>>
FilterEventSamples ==
    << <<NULL, NULL, NULL>>,
       <<Some(<<"b">>), Some("food"), NULL>>,
       <<Some(<<"A">>), Some("medical"), Some(<<"a">>)>>,
       <<NULL, Some("FOOD"), NULL>>,
       <<Some(<<"_">>), NULL, NULL>>,
       <<NULL, NULL, Some(<<"%">>)>>,
       <<Some(<<"a", "_">>), NULL, Some(<<>>)>> >>

\* <<name, city>>
FilterShelterSamples ==
    << <<NULL, NULL>>,
       <<Some(<<"b">>), NULL>>,
       <<Some(<<"A">>), Some(<<"b">>)>>,
       <<Some(<<"_">>), NULL>>,
       <<Some(<<>>), Some(<<"%">>)>> >>

FilterListEvents ==
    \E f \in DOMAIN FilterEventSamples :
        ListEvents(PageMin, PageSizeMax, FilterEventSamples[f][1],
                   FilterEventSamples[f][2], FilterEventSamples[f][3])

FilterListShelters ==
    \E f \in DOMAIN FilterShelterSamples :
        ListShelters(PageMin, PageSizeMax, FilterShelterSamples[f][1],
                     FilterShelterSamples[f][2])

NextFilter ==
    \/ FilterListEvents
    \/ FilterListShelters

SpecFilter == InitPage /\ [][NextFilter]_vars

-----------------------------------------------------------------------------
(* Specification of the entities' life cycle: create, read by id, update   *)
(* and delete of both kinds, with creators recorded and with patches that  *)
(* name columns the update schemas do not declare.                         *)

\* <<name, created_by>> of the create bodies.
LifeCreateSamples == << <<TextA, NULL>>, <<TextB, Some(7)>> >>

LifeEventBody(id, r) ==
    With(EventBody(id, Some(r[1]), Some("food"), Some(Point(0, 0)), Some(1), NULL),
         "created_by", r[2])

LifeShelterBody(id, r) ==
    With(ShelterBody(id, Some(r[1]), Some(Point(0, 0)), NULL), "created_by", r[2])

\* Patches: empty, a rename, a null name, and one naming the id and the
\* creation columns.
LifeEventPatches ==
    << <<>>,
       [event_name |-> Some(TextB)],
       [event_name |-> NULL],
       [event_id |-> Some(MaxId + 1), created_at |-> Some(9), created_by |-> Some(8)] >>

LifeShelterPatches ==
    << <<>>,
       [shelter_name |-> Some(TextB)],
       [shelter_name |-> NULL],
       [shelter_id |-> Some(MaxId + 1), created_at |-> Some(9), created_by |-> Some(8)] >>

LifeCreateEvent ==
    \E id \in Ids : \E k \in DOMAIN LifeCreateSamples :
        CreateEvent(LifeEventBody(id, LifeCreateSamples[k]))

LifeUpdateEvent ==
    \E id \in Ids : \E k \in DOMAIN LifeEventPatches : UpdateEvent(id, LifeEventPatches[k])

LifeGetEvent == \E id \in Ids : GetEvent(id)

LifeCreateShelter ==
    \E id \in Ids : \E k \in DOMAIN LifeCreateSamples :
        CreateShelter(LifeShelterBody(id, LifeCreateSamples[k]))

LifeUpdateShelter ==
    \E id \in Ids : \E k \in DOMAIN LifeShelterPatches :
        UpdateShelter(id, LifeShelterPatches[k])

LifeGetShelter == \E id \in Ids : GetShelter(id)

NextLife ==
    \/ LifeCreateEvent
    \/ LifeUpdateEvent
    \/ DoDeleteEvent
    \/ LifeGetEvent
    \/ LifeCreateShelter
    \/ LifeUpdateShelter
    \/ DoDeleteShelter
    \/ LifeGetShelter

SpecLife == Init /\ [][NextLife]_vars

-----------------------------------------------------------------------------
(* Specification of input validation: well-formed creates, deletes, and    *)
(* create and update requests whose bodies are malformed.                  *)

\* Malformed create bodies: longitude and latitude out of range, a negative
\* capacity, an end before the start, an empty name.
MalformedEventCreates(id) ==
    LET ok == LifeEventBody(id, LifeCreateSamples[1]) IN
    << With(ok, "location", Some(Point(LonMax + 1, 0))),
       With(ok, "location", Some(Point(0, -LatMax - 1))),
       With(ok, "capacity", Some(-1)),
       With(ok, "end_date", Some(0)),
       With(ok, "event_name", Some(<<>>)) >>

MalformedShelterCreates(id) ==
    LET ok == LifeShelterBody(id, LifeCreateSamples[1]) IN
    << With(ok, "location", Some(Point(-LonMax - 1, 0))),
       With(ok, "location", Some(Point(0, LatMax + 1))),
       With(ok, "capacity", Some(-1)),
       With(ok, "available_beds", Some(-1)),
       With(ok, "shelter_name", Some(<<>>)) >>

\* Malformed patches, each with a well-formed field beside the bad one.
MalformedEventPatches ==
    << [location |-> Some(Point(LonMax + 1, 0)), description |-> Some(TextA)],
       [location |-> Some(Point(0, LatMax + 1)), description |-> Some(TextA)],
       [capacity |-> Some(-1), event_name |-> Some(TextB)],
       [event_name |-> Some(<<>>), description |-> Some(TextA)] >>

MalformedShelterPatches ==
    << [location |-> Some(Point(LonMax + 1, 0)), description |-> Some(TextA)],
       [location |-> Some(Point(0, LatMax + 1)), description |-> Some(TextA)],
       [capacity |-> Some(-1), shelter_name |-> Some(TextB)],
       [available_beds |-> Some(-1), shelter_name |-> Some(TextB)],
       [shelter_name |-> Some(<<>>), description |-> Some(TextA)] >>

MalformedCreateEvent ==
    \E id \in Ids : \E k \in DOMAIN MalformedEventCreates(id) :
        CreateEvent(MalformedEventCreates(id)[k])

MalformedUpdateEvent ==
    \E id \in Ids : \E k \in DOMAIN MalformedEventPatches :
        UpdateEvent(id, MalformedEventPatches[k])

MalformedCreateShelter ==
    \E id \in Ids : \E k \in DOMAIN MalformedShelterCreates(id) :
        CreateShelter(MalformedShelterCreates(id)[k])

MalformedUpdateShelter ==
    \E id \in Ids : \E k \in DOMAIN MalformedShelterPatches :
        UpdateShelter(id, MalformedShelterPatches[k])

NextValid ==
    \/ LifeCreateEvent
    \/ DoDeleteEvent
    \/ MalformedCreateEvent
    \/ MalformedUpdateEvent
    \/ LifeCreateShelter
    \/ DoDeleteShelter
    \/ MalformedCreateShelter
    \/ MalformedUpdateShelter

SpecValid == Init /\ [][NextValid]_vars

-----------------------------------------------------------------------------
(* Specification of concurrent creates: two clients create events and      *)
(* shelters, each with its own payload, the existence check and the commit *)
(* of a request being separate steps.  Nothing is deleted.                 *)

RaceCreateEvent ==
    \E c \in Clients : \E id \in Ids :
        BeginCreateEvent(c, LifeEventBody(id, LifeCreateSamples[c]))

RaceCommitCreateEvent == \E c \in Clients : CommitCreateEvent(c)

RaceCreateShelter ==
    \E c \in Clients : \E id \in Ids :
        BeginCreateShelter(c, LifeShelterBody(id, LifeCreateSamples[c]))

RaceCommitCreateShelter == \E c \in Clients : CommitCreateShelter(c)

NextRaceCreate ==
    \/ RaceCreateEvent
    \/ RaceCommitCreateEvent
    \/ RaceCreateShelter
    \/ RaceCommitCreateShelter

SpecRaceCreate == Init /\ [][NextRaceCreate]_vars

-----------------------------------------------------------------------------
(* Specification of concurrent writes: events are created (with name "a"   *)
(* and no description), and two clients update and delete them, the read   *)
(* of a request and its commit being separate steps.  The patches set the  *)
(* name and the description; the last sets the name to null.               *)

RaceEventPatches ==
    << [event_name |-> Some(TextB), description |-> Some(TextB)],
       [event_name |-> Some(TextA), description |-> Some(TextA)],
       [event_name |-> NULL, description |-> Some(TextA)] >>

RaceNewEvent ==
    \E id \in Ids : CreateEvent(LifeEventBody(id, LifeCreateSamples[1]))

RaceUpdateEvent ==
    \E c \in Clients : \E id \in Ids : \E k \in DOMAIN RaceEventPatches :
        BeginUpdateEvent(c, id, RaceEventPatches[k])

RaceCommitUpdateEvent == \E c \in Clients : CommitUpdateEvent(c)

RaceDeleteEvent == \E c \in Clients : \E id \in Ids : BeginDeleteEvent(c, id)

RaceCommitDeleteEvent == \E c \in Clients : CommitDeleteEvent(c)

NextRace ==
    \/ RaceNewEvent
    \/ RaceUpdateEvent
    \/ RaceCommitUpdateEvent
    \/ RaceDeleteEvent
    \/ RaceCommitDeleteEvent

SpecRace == Init /\ [][NextRace]_vars

-----------------------------------------------------------------------------
(* Specification of listings under concurrent writes: events and shelters  *)
(* (with one free bed) are created and deleted while two clients read the  *)
(* unfiltered listings, the count query and the page query of a listing    *)
(* being separate steps.                                                   *)

RaceListNewEvent ==
    \E id \in Ids : CreateEvent(LifeEventBody(id, LifeCreateSamples[1]))

RaceListNewShelter ==
    \E id \in Ids : CreateShelter(ShelterBody(id, Some(TextA), Some(Point(0, 0)), Some(1)))

RaceCountEvents ==
    \E c \in Clients : \E page \in Pages : \E page_size \in PageSizes :
        CountList(c, "list_events",
                  [page |-> page, page_size |-> page_size, name |-> NULL,
                   event_type |-> NULL, city |-> NULL])

RaceCountShelters ==
    \E c \in Clients : \E page \in Pages : \E page_size \in PageSizes :
        CountList(c, "list_shelters",
                  [page |-> page, page_size |-> page_size, name |-> NULL, city |-> NULL])

RaceCountAvailable ==
    \E c \in Clients : \E page \in Pages : \E page_size \in PageSizes :
        CountList(c, "list_available",
                  [page |-> page, page_size |-> page_size, min_beds |-> 1])

RacePageList == \E c \in Clients : PageList(c)

NextRaceList ==
    \/ RaceListNewEvent
    \/ DoDeleteEvent
    \/ RaceListNewShelter
    \/ DoDeleteShelter
    \/ RaceCountEvents
    \/ RaceCountShelters
    \/ RaceCountAvailable
    \/ RacePageList

SpecRaceList == Init /\ [][NextRaceList]_vars

-----------------------------------------------------------------------------
(* Specification of the required columns: creates whose bodies lack a      *)
(* required field or name an unknown type, and patches that set a required *)
(* column to null, alone or with another field, next to well-formed ones.  *)

RequiredEventCreates(id) ==
    LET ok == LifeEventBody(id, LifeCreateSamples[1]) IN
    << ok,
       With(ok, "event_type", Some("medical")),
       With(ok, "event_name", NULL),
       With(ok, "location", NULL),
       With(ok, "event_date", NULL),
       With(ok, "event_type", NULL),
       With(ok, "event_type", Some("party")) >>

RequiredShelterCreates(id) ==
    LET ok == LifeShelterBody(id, LifeCreateSamples[1]) IN
    << ok,
       With(ok, "shelter_name", NULL),
       With(ok, "location", NULL) >>

RequiredEventPatches ==
    << [event_name |-> NULL],
       [location |-> NULL],
       [event_date |-> NULL],
       [event_type |-> NULL],
       [event_type |-> Some("party")],
       [event_type |-> Some("hygiene")],
       [event_date |-> NULL, description |-> Some(TextA)],
       [event_name |-> Some(TextB), event_date |-> Some(2)] >>

RequiredShelterPatches ==
    << [shelter_name |-> NULL],
       [location |-> NULL],
       [location |-> NULL, description |-> Some(TextA)],
       [shelter_name |-> Some(TextB), location |-> Some(Point(1, 0))] >>

RequiredCreateEvent ==
    \E id \in Ids : \E k \in DOMAIN RequiredEventCreates(id) :
        CreateEvent(RequiredEventCreates(id)[k])

RequiredUpdateEvent ==
    \E id \in Ids : \E k \in DOMAIN RequiredEventPatches :
        UpdateEvent(id, RequiredEventPatches[k])

RequiredCreateShelter ==
    \E id \in Ids : \E k \in DOMAIN RequiredShelterCreates(id) :
        CreateShelter(RequiredShelterCreates(id)[k])

RequiredUpdateShelter ==
    \E id \in Ids : \E k \in DOMAIN RequiredShelterPatches :
        UpdateShelter(id, RequiredShelterPatches[k])

NextRequired ==
    \/ RequiredCreateEvent
    \/ RequiredUpdateEvent
    \/ DoDeleteEvent
    \/ RequiredCreateShelter
    \/ RequiredUpdateShelter
    \/ DoDeleteShelter

SpecRequired == Init /\ [][NextRequired]_vars

-----------------------------------------------------------------------------
(* Properties of create / update / delete, checked under Spec *)

OtherRowsKept(table, table2, id) ==
    /\ DOMAIN table2 = DOMAIN table
    /\ \A i \in (DOMAIN table) \ {id} : table2[i] = table[i]

\* C1: a create (of a body that passed validation) whose id is already in the
\* table is answered Conflict and leaves both tables exactly as they were,
\* for events and for shelters.
C1_ConflictKeepsStore ==
    [][ /\ (resp'.op = "create_event" /\ resp'.outcome # "ValidationError"
               /\ resp'.id \in DOMAIN events)
            => (resp'.outcome = "Conflict" /\ events' = events /\ shelters' = shelters)
        /\ (resp'.op = "create_shelter" /\ resp'.outcome # "ValidationError"
               /\ resp'.id \in DOMAIN shelters)
            => (resp'.outcome = "Conflict" /\ events' = events /\ shelters' = shelters)
      ]_vars

\* A conflicting create met a stored event that differs from any create body
\* (it was renamed by an update) while a second event is stored too.
C1_Witness ==
    /\ resp.op = "create_event" /\ resp.outcome = "Conflict"
    /\ Cardinality(DOMAIN events) = 2
    /\ events[resp.id]["location"] = Some(location_to_wkt(Point(1, 0)))

UpdateOfExisting(op, table) ==
    /\ resp'.op = op
    /\ resp'.outcome # "ValidationError"
    /\ resp'.id \in DOMAIN table

FrameKept(table, table2) ==
    /\ OtherRowsKept(table, table2, resp'.id)
    /\ \A c \in (DOMAIN table[resp'.id]) \ resp'.fields :
            table2[resp'.id][c] = table[resp'.id][c]
    /\ resp'.fields = {} => table2 = table

\* C2 as claimed: every update of an existing id succeeds and keeps every
\* field outside the patch.
C2_UpdateAlwaysSucceeds ==
    [][ /\ UpdateOfExisting("update_event", events)
            => (resp'.outcome = "OK" /\ FrameKept(events, events'))
        /\ UpdateOfExisting("update_shelter", shelters)
            => (resp'.outcome = "OK" /\ FrameKept(shelters, shelters'))
      ]_vars

\* C2 amended: an update of an existing id keeps every field outside the
\* patch (and the whole row when the patch is empty); it succeeds unless the
\* patch sets a NOT NULL column to null, and then it fails with a store error
\* and changes nothing.
C2_UpdateFrame ==
    [][ /\ UpdateOfExisting("update_event", events)
            => /\ FrameKept(events, events') /\ shelters' = shelters
               /\ resp'.outcome =
                    (IF resp'.nulls \cap EventNotNull = {} THEN "OK" ELSE "StoreError")
               /\ resp'.outcome = "StoreError" => events' = events
        /\ UpdateOfExisting("update_shelter", shelters)
            => /\ FrameKept(shelters, shelters') /\ events' = events
               /\ resp'.outcome =
                    (IF resp'.nulls \cap ShelterNotNull = {} THEN "OK" ELSE "StoreError")
               /\ resp'.outcome = "StoreError" => shelters' = shelters
      ]_vars

\* An update that set location alone succeeded on an event whose name and
\* description had been changed earlier and are still in place.
C2_Witness ==
    /\ resp.op = "update_event" /\ resp.outcome = "OK"
    /\ resp.fields = {"location"}
    /\ events[resp.id]["event_name"] = Some(TextB)
    /\ events[resp.id]["description"] = Some(TextA)
    /\ events[resp.id]["location"] = Some(location_to_wkt(Point(1, 0)))

-----------------------------------------------------------------------------
(* Properties of the temporal filters *)

Range(s) == {s[i] : i \in DOMAIN s}

EndDateOrdered(row) ==
    row["end_date"] = NULL \/ Val(row["end_date"]) >= Val(row["event_date"])

\* C3: every stored event has end_date null or end_date >= event_date, after
\* any sequence of create, update and delete (checked under SpecTime).
C3_EndDateNotBeforeStart == \A id \in DOMAIN events : EndDateOrdered(events[id])

\* The events the claim C4 calls active at time t.
ClaimedActive(t) ==
    {id \in DOMAIN events :
        /\ Val(events[id]["event_date"]) <= t
        /\ (events[id]["end_date"] = NULL \/ Val(events[id]["end_date"]) >= t)}

\* C4: listActive read at time now counts exactly the stored events with
\* event_date <= now and (end_date >= now or end_date null), and its page
\* (page 1 of the largest page size) holds exactly those events.
C4_ActiveExact ==
    resp.op = "list_active"
        => /\ resp.args.now = now
           /\ resp.total = Cardinality(ClaimedActive(now))
           /\ Range(resp.entities) = ClaimedActive(now)

\* listActive counted one event that starts and ends at this very instant and
\* left another stored event out.
C4_Witness ==
    /\ resp.op = "list_active" /\ resp.total = 1
    /\ Cardinality(DOMAIN events) = 2
    /\ \E id \in Range(resp.entities) :
            events[id]["event_date"] = Some(now) /\ events[id]["end_date"] = Some(now)

\* The events the claim C5 calls upcoming at time t.
ClaimedUpcoming(t) ==
    {id \in DOMAIN events :
        \/ events[id]["end_date"] # NULL /\ Val(events[id]["end_date"]) >= t
        \/ events[id]["end_date"] = NULL /\ Val(events[id]["event_date"]) >= t}

\* C5: listUpcoming read at time now counts exactly the stored events with
\* end_date >= now, or end_date null and event_date >= now, and its page
\* holds exactly those events.
C5_UpcomingExact ==
    resp.op = "list_upcoming"
        => /\ resp.args.now = now
           /\ resp.total = Cardinality(ClaimedUpcoming(now))
           /\ Range(resp.entities) = ClaimedUpcoming(now)

\* listUpcoming counted an open-ended event that starts now and left out an
\* open-ended event that has started.
C5_Witness ==
    /\ resp.op = "list_upcoming" /\ resp.total = 1
    /\ \E a \in Range(resp.entities) :
            events[a]["end_date"] = NULL /\ events[a]["event_date"] = Some(now)
    /\ \E b \in (DOMAIN events) \ Range(resp.entities) :
            events[b]["end_date"] = NULL /\ Val(events[b]["event_date"]) < now

OpenEnded == {id \in DOMAIN events : events[id]["end_date"] = NULL}

\* C6: for an event with end_date null: while now < event_date it is in
\* listUpcoming and not in listActive; when now > event_date it is in
\* listActive and not in listUpcoming; and as long as it is stored unchanged,
\* a step never takes it from "started" back to "not yet started".
C6_OpenEndedLifecycle ==
    /\ [](\A id \in OpenEnded :
            /\ (resp.op = "list_upcoming" /\ now < EventDateOf(id))
                    => id \in Range(resp.entities)
            /\ (resp.op = "list_active" /\ now < EventDateOf(id))
                    => id \notin Range(resp.entities)
            /\ (resp.op = "list_active" /\ now > EventDateOf(id))
                    => id \in Range(resp.entities)
            /\ (resp.op = "list_upcoming" /\ now > EventDateOf(id))
                    => id \notin Range(resp.entities))
    /\ [][\A id \in OpenEnded :
            (id \in DOMAIN events' /\ events'[id] = events[id] /\ now > EventDateOf(id))
                => now' > EventDateOf(id)]_vars

\* An open-ended event is still listed as active more than one tick after
\* its start.
C6_Witness ==
    /\ resp.op = "list_active"
    /\ \E a \in OpenEnded : now > EventDateOf(a) + 1 /\ a \in Range(resp.entities)

-----------------------------------------------------------------------------
(* Properties of the proximity search, checked under SpecGeo *)

IsNearbyReply == resp.op \in {"nearby_events", "nearby_shelters"} /\ resp.outcome = "OK"

NearbyTable == IF resp.op = "nearby_events" THEN events ELSE shelters

QueryGeom == GeomFromText(resp.args.longitude, resp.args.latitude)

\* The store's distance (squared) from the query point to a stored entity.
DistToQuery(id) == DistSq(Val(NearbyTable[id]["location"]), QueryGeom)

\* C7: in the sequence a nearby search returns, an entity that precedes
\* another is at most as far from the query point, by the store's distance
\* function over the SRID 4326 geometry column.
C7_NearestFirst ==
    IsNearbyReply
        => \A i, j \in DOMAIN resp.entities :
                i < j => DistToQuery(resp.entities[i]) <= DistToQuery(resp.entities[j])

\* A nearby search returned two entities at different distances.
C7_Witness ==
    /\ IsNearbyReply /\ Len(resp.entities) = 2
    /\ DistToQuery(resp.entities[1]) < DistToQuery(resp.entities[2])

\* A lower bound, in metres, on the length of one degree of latitude, and of
\* one degree of longitude within a degree of the equator (both exceed 110 km).
DegreeMetres == 110 * 1000

Abs(x) == IF x < 0 THEN -x ELSE x

Max(a, b) == IF a >= b THEN a ELSE b

\* A lower bound on the ground distance in metres between two sample points.
MetresAtLeast(g, h) == DegreeMetres * Max(Abs(g[2] - h[2]), Abs(g[3] - h[3]))

\* C8 as claimed: every entity a nearby search returns lies within
\* radius metres of the query point.
C8_WithinRadiusMetres ==
    IsNearbyReply
        => \A i \in DOMAIN resp.entities :
                MetresAtLeast(Val(NearbyTable[resp.entities[i]]["location"]), QueryGeom)
                    <= resp.args.radius

\* The stored entities the radius predicate of the search is true of.
WithinRadius ==
    {id \in DOMAIN NearbyTable :
        DWithin3(NearbyTable[id]["location"], QueryGeom, resp.args.radius) = "T"}

\* C9: a nearby search returns exactly min(limit, number of stored entities
\* the radius predicate accepts) distinct entities, each accepted by the
\* predicate, and no accepted entity left out is strictly nearer than a
\* returned one.
C9_TopK ==
    IsNearbyReply
        => /\ Len(resp.entities) = Min(resp.args.limit, Cardinality(WithinRadius))
           /\ Cardinality(Range(resp.entities)) = Len(resp.entities)
           /\ Range(resp.entities) \subseteq WithinRadius
           /\ \A out \in WithinRadius \ Range(resp.entities) :
                \A in \in Range(resp.entities) : DistToQuery(out) >= DistToQuery(in)

\* A nearby search with limit 1 returned the nearer of two accepted entities.
C9_Witness ==
    /\ IsNearbyReply /\ resp.args.limit = 1 /\ Len(resp.entities) = 1
    /\ \E out \in WithinRadius : DistToQuery(out) > DistToQuery(resp.entities[1])

-----------------------------------------------------------------------------
(* Properties of the paginated listings, checked under SpecPage *)

ListOps ==
    {"list_events", "list_by_type", "list_by_date_range", "list_upcoming",
     "list_active", "list_shelters", "list_available"}

IsListReply == resp.op \in ListOps /\ resp.outcome = "OK"

\* The stored entities that match the filters of the listing request r.
Matched(r) ==
    CASE r.op = "list_events" ->
            {id \in DOMAIN events :
                EventsFilter(events[id], r.args.name, r.args.event_type, r.args.city) = "T"}
      [] r.op = "list_by_type" ->
            {id \in DOMAIN events : events[id]["event_type"] = Some(r.args.event_type)}
      [] r.op = "list_by_date_range" ->
            {id \in DOMAIN events :
                DateRangeFilter(events[id], r.args.start_date, r.args.end_date) = "T"}
      [] r.op = "list_upcoming" ->
            {id \in DOMAIN events : UpcomingFilter(events[id], r.args.now) = "T"}
      [] r.op = "list_active" ->
            {id \in DOMAIN events : ActiveFilter(events[id], r.args.now) = "T"}
      [] r.op = "list_shelters" ->
            {id \in DOMAIN shelters :
                SheltersFilter(shelters[id], r.args.name, r.args.city) = "T"}
      [] r.op = "list_available" ->
            {id \in DOMAIN shelters :
                AvailabilityFilter(shelters[id], r.args.min_beds) = "T"}

\* The number of entities page `page` of size `page_size` holds out of n.
PageLength(n, page, page_size) ==
    IF (page - 1) * page_size >= n THEN 0 ELSE Min(page_size, n - (page - 1) * page_size)

\* The request of r without its page and page_size.
FiltersOf(r) == [op |-> r.op, args |-> [r.args EXCEPT !.page = 0, !.page_size = 0]]

PageReplyRight ==
    /\ resp.op \in ListOps
        => \/ resp.outcome = "OK"
           \/ /\ resp.op = "list_by_date_range"
              /\ resp.args.end_date < resp.args.start_date
    /\ IsListReply
        => /\ resp.total = Cardinality(Matched(resp))
           /\ Len(resp.entities) <= resp.args.page_size
           /\ Len(resp.entities)
                = PageLength(resp.total, resp.args.page, resp.args.page_size)
           /\ Range(resp.entities) \subseteq Matched(resp)

SameTotalAcrossPages ==
    (IsListReply /\ IsListReply' /\ FiltersOf(resp) = FiltersOf(resp')
        /\ events' = events /\ shelters' = shelters)
        => resp'.total = resp.total

\* C10: every listing call with page >= 1 and page_size in 1..100 succeeds,
\* returns the entities at offsets (page-1)*page_size onward, at most
\* page_size of them, with total the number of stored entities matching the
\* filters; two calls with the same filters on an unchanged store return the
\* same total whatever their pages; a page past the end is an empty list with
\* that total.
C10_Pagination == [] PageReplyRight /\ [][SameTotalAcrossPages]_vars

\* A listing with matching entities was asked for a page past their end and
\* answered with an empty list and the total.
C10_Witness ==
    /\ IsListReply /\ resp.total >= 1 /\ resp.entities = <<>>
    /\ resp.args.page >= 2
    /\ (resp.args.page - 1) * resp.args.page_size >= resp.total

\* C11 as claimed: with the store and the filters fixed, a listing repeated
\* with the same page returns the same sequence, and two different pages of
\* the same listing share no entity, also when matching entities have equal
\* sort keys.
C11_StableTotalOrder ==
    [][(IsListReply /\ IsListReply' /\ FiltersOf(resp) = FiltersOf(resp')
            /\ resp.args.page_size = resp'.args.page_size
            /\ events' = events /\ shelters' = shelters)
        => IF resp'.args.page = resp.args.page
             THEN resp'.entities = resp.entities
             ELSE Range(resp'.entities) \cap Range(resp.entities) = {}]_vars

-----------------------------------------------------------------------------
(* Properties of the life cycle, checked under SpecLife *)

\* The step is a delete of a stored id: it answers Deleted, removes that row
\* and nothing else.
DeleteRemoves(op, table, table2, other, other2) ==
    (resp'.op = op /\ resp'.id \in DOMAIN table)
        => /\ resp'.outcome = "Deleted"
           /\ DOMAIN table2 = (DOMAIN table) \ {resp'.id}
           /\ \A i \in DOMAIN table2 : table2[i] = table[i]
           /\ other2 = other

\* The step follows a successful delete of the same id: a read or a second
\* delete answers NotFound, a create succeeds.
AfterDelete(del, get, create) ==
    (resp.op = del /\ resp.outcome = "Deleted" /\ resp'.id = resp.id)
        => /\ resp'.op = get => resp'.outcome = "NotFound"
           /\ resp'.op = del => resp'.outcome = "NotFound"
           /\ resp'.op = create => resp'.outcome = "Created"

\* C12: deleting a stored id answers Deleted (true), removes exactly that
\* entity and leaves every other one unchanged; right after it a read of the
\* id finds nothing, a second delete answers NotFound (false) and a create
\* with the id succeeds; for events and for shelters.
C12_DeleteThenAbsent ==
    [][ /\ DeleteRemoves("delete_event", events, events', shelters, shelters')
        /\ DeleteRemoves("delete_shelter", shelters, shelters', events, events')
        /\ AfterDelete("delete_event", "get_event", "create_event")
        /\ AfterDelete("delete_shelter", "get_shelter", "create_shelter")
      ]_vars

\* An event was deleted while another event, renamed earlier, stays stored.
C12_Witness ==
    /\ resp.op = "delete_event" /\ resp.outcome = "Deleted"
    /\ resp.id \notin DOMAIN events
    /\ \E j \in DOMAIN events : events[j]["event_name"] = Some(TextB)

\* C13: an update or a delete addressed to an id that is not stored answers
\* NotFound and leaves both tables as they were; the id is still not stored.
C13_AbsentIdNotFound ==
    [][ /\ (resp'.op \in {"update_event", "delete_event"} /\ resp'.id \notin DOMAIN events)
            => (resp'.outcome = "NotFound" /\ events' = events /\ shelters' = shelters)
        /\ (resp'.op \in {"update_shelter", "delete_shelter"}
                /\ resp'.id \notin DOMAIN shelters)
            => (resp'.outcome = "NotFound" /\ events' = events /\ shelters' = shelters)
      ]_vars

\* An update addressed a missing event while another event is stored.
C13_Witness ==
    /\ resp.op = "update_event" /\ resp.outcome = "NotFound"
    /\ resp.id \notin DOMAIN events /\ DOMAIN events # {}

CreationColumnsKept(table, table2, idcol) ==
    \A i \in (DOMAIN table) \cap (DOMAIN table2) :
        \A c \in {idcol, "created_at", "created_by"} : table2[i][c] = table[i][c]

\* C18: while an entity stays stored, no step (and so no update, whatever its
\* patch names) changes its id, created_at or created_by; they can differ
\* only after the entity was deleted and created again.
C18_CreationColumnsImmutable ==
    [][ /\ CreationColumnsKept(events, events', "event_id")
        /\ CreationColumnsKept(shelters, shelters', "shelter_id")
        /\ resp'.op \in {"update_event", "update_shelter"}
            => (DOMAIN events' = DOMAIN events /\ DOMAIN shelters' = DOMAIN shelters)
      ]_vars

\* An update whose patch names the id and the creation columns succeeded on
\* an event that has a creator.
C18_Witness ==
    /\ resp.op = "update_event" /\ resp.outcome = "OK"
    /\ "created_by" \in resp.fields
    /\ events[resp.id]["created_by"] = Some(7)

-----------------------------------------------------------------------------
(* Properties of the list filters, checked under SpecFilter *)

LowerText(t) == [i \in DOMAIN t |-> Lower(t[i])]

\* sub occurs in text, letter case ignored.
ContainsIgnoringCase(text, sub) ==
    \E i \in 0..(Len(text) - Len(sub)) :
        SubSeq(LowerText(text), i + 1, i + Len(sub)) = LowerText(sub)

\* A text filter is satisfied when it is absent (or blank), or when the
\* column holds a text in which the filter occurs.
TextFilterSatisfied(col, filter) ==
    (filter # NULL /\ Val(filter) # <<>>)
        => (col # NULL /\ ContainsIgnoringCase(Val(col), Val(filter)))

TypeFilterSatisfied(col, filter) ==
    (filter # NULL /\ Val(filter) # "") => col = filter

ClaimedListed ==
    IF resp.op = "list_events"
    THEN {id \in DOMAIN events :
            /\ TextFilterSatisfied(events[id]["event_name"], resp.args.name)
            /\ TypeFilterSatisfied(events[id]["event_type"], resp.args.event_type)
            /\ TextFilterSatisfied(events[id]["address"], resp.args.city)}
    ELSE {id \in DOMAIN shelters :
            /\ TextFilterSatisfied(shelters[id]["shelter_name"], resp.args.name)
            /\ TextFilterSatisfied(shelters[id]["address"], resp.args.city)}

\* C14 as claimed: the list operation of each kind matches exactly the stored
\* entities in whose name and address the supplied filter texts occur
\* (letter case ignored) and whose type equals the supplied type; an absent
\* filter removes nothing.
C14_FiltersExact ==
    (resp.op \in {"list_events", "list_shelters"} /\ resp.outcome = "OK")
        => /\ resp.total = Cardinality(ClaimedListed)
           /\ Range(resp.entities) = ClaimedListed

-----------------------------------------------------------------------------
(* Properties of input validation, checked under SpecValid *)

Rejected(op, id) ==
    /\ resp' = Reply(op, id, "ValidationError")
    /\ events' = events
    /\ shelters' = shelters

\* C15: every step that is a create or an update with a malformed body
\* (coordinate out of range, negative capacity or available_beds, end before
\* start on create, empty name) answers ValidationError and leaves both
\* tables identical, whether or not the id is stored.
C15_MalformedRejected ==
    [][ LET id == resp'.id IN
          /\ resp'.op = "create_event"
                => \A k \in DOMAIN MalformedEventCreates(id) :
                      CreateEvent(MalformedEventCreates(id)[k])
                          => Rejected("create_event", id)
          /\ resp'.op = "update_event"
                => \A k \in DOMAIN MalformedEventPatches :
                      UpdateEvent(id, MalformedEventPatches[k])
                          => Rejected("update_event", id)
          /\ resp'.op = "create_shelter"
                => \A k \in DOMAIN MalformedShelterCreates(id) :
                      CreateShelter(MalformedShelterCreates(id)[k])
                          => Rejected("create_shelter", id)
          /\ resp'.op = "update_shelter"
                => \A k \in DOMAIN MalformedShelterPatches :
                      UpdateShelter(id, MalformedShelterPatches[k])
                          => Rejected("update_shelter", id)
      ]_vars

\* A malformed update was refused on a stored shelter, which keeps its name.
C15_Witness ==
    /\ resp = Reply("update_shelter", resp.id, "ValidationError")
    /\ resp.id \in DOMAIN shelters
    /\ shelters[resp.id]["shelter_name"] = Some(TextA)

-----------------------------------------------------------------------------
(* The look-ahead window of the upcoming listing, checked under SpecClock; *)
(* one unit of the clock is one day.                                       *)

\* C17 as claimed: the upcoming listing called with days_ahead = D at time
\* now returns, and counts, only events with event_date <= now + D.
C17_WithinDaysAhead ==
    (resp.op = "list_upcoming" /\ resp.outcome = "OK")
        => /\ \A i \in DOMAIN resp.entities :
                EventDateOf(resp.entities[i]) <= resp.args.now + resp.args.days_ahead
           /\ resp.total
                = Cardinality({id \in DOMAIN events :
                                /\ UpcomingFilter(events[id], resp.args.now) = "T"
                                /\ EventDateOf(id) <= resp.args.now + resp.args.days_ahead})

-----------------------------------------------------------------------------
(* Concurrent creates of one id, checked under SpecRaceCreate *)

\* Clients c and d both sent a create of the same kind and id, both passed
\* the existence check (neither was answered Conflict or refused), and both
\* requests have ended.
RacedCreates(c, d) ==
    /\ c # d
    /\ sessions[c].pc = "done" /\ sessions[d].pc = "done"
    /\ sessions[c].op \in {"create_event", "create_shelter"}
    /\ sessions[d].op = sessions[c].op
    /\ sessions[d].id = sessions[c].id
    /\ sessions[c].outcome \in {"Created", "StoreError"}
    /\ sessions[d].outcome \in {"Created", "StoreError"}

\* The stored row is the whole payload of client c's create.
HoldsPayloadOf(c) ==
    LET s == sessions[c] IN
    IF s.op = "create_event"
      THEN s.id \in DOMAIN events /\ events[s.id] = NewEventRow(s.body)
      ELSE s.id \in DOMAIN shelters /\ shelters[s.id] = NewShelterRow(s.body)

\* C19: of two creates of the same id that both passed the existence check
\* before either committed, exactly one is answered Created, and the stored
\* row of that id is the complete payload of the one that was.
C19_OneCreateWins ==
    \A c \in Clients : \A d \in Clients :
        RacedCreates(c, d)
            => /\ (sessions[c].outcome = "Created") # (sessions[d].outcome = "Created")
               /\ sessions[c].outcome = "Created" => HoldsPayloadOf(c)

\* Two creates of event 1 raced: client 1 was refused by the store, client 2
\* was answered Created.
C19_Witness ==
    /\ RacedCreates(1, 2)
    /\ sessions[1].op = "create_event" /\ sessions[1].id = 1
    /\ sessions[1].outcome = "StoreError"
    /\ sessions[2].outcome = "Created"
    /\ events[1]["event_name"] = Some(TextB)

-----------------------------------------------------------------------------
(* All-or-nothing writes under concurrency, checked under SpecRace *)

\* Client c's request ends in this step.
Committing(c) == sessions[c].pc = "pending" /\ sessions'[c].pc = "done"

\* C16 as claimed: the commit of an update that succeeds leaves the row with
\* every field of the patch at the patch's value and every other column as it
\* was; a commit that fails leaves the table as it was; a delete removes the
\* row whole, a create stores a whole row, and no other step changes a row.
C16_AllOrNothing ==
    [][/\ \A c \in Clients :
            (Committing(c) /\ sessions[c].op = "update_event")
                => LET id == sessions[c].id
                       data == EventUpdateData(sessions[c].body)
                   IN  IF sessions'[c].outcome = "OK"
                         THEN /\ id \in DOMAIN events /\ id \in DOMAIN events'
                              /\ \A f \in DOMAIN data : events'[id][f] = data[f]
                              /\ \A col \in EventColumns \ DOMAIN data :
                                    events'[id][col] = events[id][col]
                              /\ OtherRowsKept(events, events', id)
                         ELSE events' = events
       /\ \A c \in Clients :
            (Committing(c) /\ sessions[c].op = "delete_event")
                => events' = Remove(events, sessions[c].id)
       /\ (sessions' = sessions /\ events' # events)
                => /\ resp' = Reply("create_event", resp'.id, "Created")
                   /\ resp'.id \notin DOMAIN events
                   /\ RowAccepted(events'[resp'.id], EventNotNull)
                   /\ OtherRowsKept(events, Remove(events', resp'.id), resp'.id)
       /\ (events' # events /\ sessions' # sessions)
                => \E c \in Clients : Committing(c)
      ]_vars

-----------------------------------------------------------------------------
(* Listings read while writes commit, checked under SpecRaceList *)

\* C20 as claimed: a listing never returns more entities than the total it
\* reports, also when a create or delete commits between its count query
\* and its page query.
C20_PageWithinTotal ==
    (resp.op \in {"list_events", "list_shelters", "list_available"}
        /\ resp.outcome = "OK")
            => Len(resp.entities) <= resp.total

-----------------------------------------------------------------------------
(* Required columns of stored rows, checked under SpecRequired *)

\* C21: every stored event has a name, a location, an event_date and an
\* event_type among medical, food, hygiene, community_support and other;
\* every stored shelter has a name and a location.
C21_RequiredColumnsSet ==
    /\ \A id \in DOMAIN events :
            /\ events[id]["event_name"] # NULL
            /\ events[id]["location"] # NULL
            /\ events[id]["event_date"] # NULL
            /\ events[id]["event_type"] # NULL
            /\ Val(events[id]["event_type"])
                    \in {"medical", "food", "hygiene", "community_support", "other"}
    /\ \A id \in DOMAIN shelters :
            /\ shelters[id]["shelter_name"] # NULL
            /\ shelters[id]["location"] # NULL

\* A patch that set event_date to null together with a description was
\* refused by the store, and the event is stored without that description.
C21_Witness ==
    /\ resp.op = "update_event" /\ resp.outcome = "StoreError"
    /\ resp.nulls = {"event_date"} /\ resp.fields = {"event_date", "description"}
    /\ resp.id \in DOMAIN events
    /\ events[resp.id]["description"] = NULL

-----------------------------------------------------------------------------
(* The two temporal listings read at one instant, checked under SpecClock  *)

\* Two listings answered one after the other at the same instant over the
\* same table: first is the operation of the earlier, second of the later.
ReadTogether(first, second) ==
    /\ resp.op = first /\ resp'.op = second
    /\ resp.outcome = "OK" /\ resp'.outcome = "OK"
    /\ resp.args.now = resp'.args.now
    /\ events' = events

\* For the open-ended events: listed by at least one of the two replies, and
\* by both exactly when the instant is the event's date.
OpenEndedCovered(upcoming, active, t) ==
    \A id \in OpenEnded :
        /\ id \in Range(upcoming) \/ id \in Range(active)
        /\ (id \in Range(upcoming) /\ id \in Range(active)) <=> t = EventDateOf(id)

\* C22: an event with end_date null is matched, at every instant now, by
\* listUpcoming or by listActive, and by both only when now = event_date.
C22_UpcomingOrActive ==
    [][/\ ReadTogether("list_upcoming", "list_active")
            => OpenEndedCovered(resp.entities, resp'.entities, resp.args.now)
       /\ ReadTogether("list_active", "list_upcoming")
            => OpenEndedCovered(resp'.entities, resp.entities, resp.args.now)
      ]_vars

\* listActive holds an open-ended event at the very instant of its start,
\* after the clock has advanced.
C22_Witness ==
    /\ resp.op = "list_active" /\ resp.args.now = now /\ now > 0
    /\ \E a \in OpenEnded : now = EventDateOf(a) /\ a \in Range(resp.entities)

=============================================================================
